---- MODULE Spec2Model ----
(***************************************************************************)
(* Model of the mcp_copilot gateway of CLToolBench:                        *)
(*   - ToolRegistry   (src/baseline/mcp_copilot/tool_registry.py)          *)
(*   - Router.route / Router.call_tool (src/baseline/mcp_copilot/router.py)*)
(*                                                                         *)
(* Scheduling is asyncio's: one coroutine runs at a time and control       *)
(* changes hands only at an await that really suspends.  One action of     *)
(* this module is one run of a coroutine between two suspensions.          *)
(***************************************************************************)
EXTENDS Naturals, Sequences, FiniteSets, TLC

----------------------------------------------------------------------------
(* Bounds and small input sets *)

\* Number of concurrent callers of Router.call_tool.
NumCallers == 2

Callers == 1..NumCallers

\* Python's None where a name is expected.
NONE == "None"

\* Optional[list]: None, or a list.
NoList == [is_none |-> TRUE, items |-> <<>>]
List(items) == [is_none |-> FALSE, items |-> items]

\* Tool names.
Tools == {"a", "b", "c", "d"}

\* Tool names the callers of expose_tool / hide_tool / call_tool pass:
\* "a" is among the first K tools of the listing below, "d" is not.
ArgTools == {"a", "d"}

\* Server names the callers pass: "s1" is configured, "ghost" is not.
ServerNames == {"s1", "ghost"}

\* Router.servers: the names configured under "mcpServers".
Servers == {"s1"}

\* types.Tool, of which the registry reads only .name
Tool(n) == [name |-> n]

\* The dicts handed to initialize_from_servers: name -> Server.tools
\* (a list of types.Tool, [] or None).
ServerDicts ==
    { [s \in {"s1"} |-> List(<<Tool("a"), Tool("b"), Tool("c"), Tool("d")>>)],
      [s \in {"s1"} |-> List(<<Tool("d"), Tool("a")>>)],
      [s \in {"s1"} |-> NoList] }

----------------------------------------------------------------------------
(* State *)

VARIABLES
    registry,         \* ToolRegistry._registry: dict server_name -> set of tool names
    connection_lock,  \* Router.connection_lock: [holder, waiters]
    calls,            \* per caller: the call_tool coroutine it is running
    last,             \* the operation that completed last, with what it returned
    registry_lock,    \* ToolRegistry._lock: [holder, waiters]
    init_run,         \* the initialize_from_servers that is between two iterations
    held              \* the collection a caller of list_exposed got and keeps

vars == <<registry, connection_lock, calls, last, registry_lock, init_run, held>>

----------------------------------------------------------------------------
(* Python helpers *)

\* dict.get(key, default)
Get(d, key, default) == IF key \in DOMAIN d THEN d[key] ELSE default

\* d[key] = value on a dict (the key is added when it is missing)
Put(d, key, value) ==
    [k \in DOMAIN d \cup {key} |-> IF k = key THEN value ELSE d[k]]

Range(seq) == { seq[i] : i \in DOMAIN seq }

\* list(aSet): a list holding each element once, in an order Python does
\* not promise; every such list is a possible result.
ListsOf(S) ==
    { l \in [1..Cardinality(S) -> S] : Range(l) = S }

Min(x, y) == IF x <= y THEN x ELSE y

----------------------------------------------------------------------------
(* ToolRegistry *)

\* `K = 3  # 可配置`: the size of the initially exposed prefix.
K == 3

\* `getattr(server, "tools", None) or []`
ToolsOrEmpty(tools) == IF tools.is_none THEN <<>> ELSE tools.items

\* `[t.name for t in tools[:K]]`
tool_names(tools) ==
    [i \in 1..Min(K, Len(tools)) |-> tools[i].name]

\* A slip: the new names are merged into the server's set.
initialize_from_servers_merges(reg, servers) ==
    [name \in DOMAIN reg \cup DOMAIN servers |->
        IF name \in DOMAIN servers
        THEN Get(reg, name, {})
                 \cup { ToolsOrEmpty(servers[name])[i].name :
                            i \in 1..Min(K, Len(ToolsOrEmpty(servers[name]))) }
        ELSE reg[name]]

\* One iteration body of initialize_from_servers' loop, for every key of
\* `servers`: self._registry[name] = set(tool_names).  Keys of a dict are
\* distinct, so the order of iteration does not show in the result.
initialize_from_servers(reg, servers) ==
    [name \in DOMAIN reg \cup DOMAIN servers |->
        IF name \in DOMAIN servers
        THEN Range(tool_names(ToolsOrEmpty(servers[name])))
        ELSE reg[name]]

\* A slip: the set is replaced by the one tool instead of growing by it.
expose_tool_overwrites(reg, server_name, tool_name) ==
    Put(reg, server_name, {tool_name})

\* self._registry.setdefault(server_name, set()).add(tool_name)
expose_tool(reg, server_name, tool_name) ==
    Put(reg, server_name, Get(reg, server_name, {}) \cup {tool_name})

\* A slip: setdefault, as in expose_tool, instead of the membership test.
hide_tool_setdefault(reg, server_name, tool_name) ==
    Put(reg, server_name, Get(reg, server_name, {}) \ {tool_name})

\* if server_name in self._registry: self._registry[server_name].discard(tool_name)
hide_tool(reg, server_name, tool_name) ==
    IF server_name \in DOMAIN reg
    THEN Put(reg, server_name, reg[server_name] \ {tool_name})
    ELSE reg

\* A slip: setdefault, which inserts the default under a missing key.
dict_get_setdefault(d, key, default) ==
    [dict |-> Put(d, key, Get(d, key, default)), value |-> Get(d, key, default)]

\* self._registry.get(server_name, set()) with the dict it leaves behind:
\* dict.get inserts nothing.
dict_get(d, key, default) == [dict |-> d, value |-> Get(d, key, default)]

\* A slip: the registry's own set is handed out.
new_list_aliases(server_name, items) ==
    [kept |-> TRUE, server_name |-> server_name, alias_of |-> server_name,
     items |-> items, expected |-> items]

\* list(x) builds a new object: what the caller holds has its own storage
\* (alias_of is the server whose registry set the object is, if it is one).
\* `expected` is what the caller got, with the caller's own later changes.
new_list(server_name, items) ==
    [kept |-> TRUE, server_name |-> server_name, alias_of |-> NONE,
     items |-> items, expected |-> items]

\* return list(self._registry.get(server_name, set())): the possible results
list_exposed(reg, server_name) == ListsOf(Get(reg, server_name, {}))

\* return tool_name in self._registry.get(server_name, set())
is_exposed(reg, server_name, tool_name) ==
    tool_name \in Get(reg, server_name, {})

----------------------------------------------------------------------------
(* Collaborators of the Router *)

\* ToolMatcher.match(query): {success, matched_tools: ranked candidates}.
Queries == {"q0", "q1", "q2"}

Candidate(s, t, score) == [server_name |-> s, tool_name |-> t, score |-> score]

match(query) ==
    CASE query = "q0" -> [success |-> TRUE, matched_tools |-> <<>>]
      [] query = "q1" -> [success |-> TRUE,
                          matched_tools |-> <<Candidate("s1", "a", 9),
                                              Candidate("s1", "d", 7)>>]
      [] OTHER        -> [success |-> TRUE,
                          matched_tools |-> <<Candidate("s1", "d", 5)>>]

\* MCPConnection.call_tool(tool_name, params): what the server may answer.
ConnectionResults(server_name, tool_name) ==
    { [isError |-> FALSE, content |-> <<"payload of ", tool_name, " on ", server_name>>] }

\* The fault MCPConnection.call_tool raises when the server reports failure.
RemoteError == [exception |-> "McpError", message |-> <<"remote failure">>]

\* The fault MCPConnection.__aenter__ raises when the server cannot be reached.
ConnectError == [exception |-> "ConnectionError", message |-> <<"cannot connect">>]

----------------------------------------------------------------------------
(* Router *)

NoValue == [none |-> TRUE]
Nothing == [kind |-> "none", value |-> NoValue]
Return(v) == [kind |-> "return", value |-> v]
Raise(e) == [kind |-> "raise", value |-> e]

\* raise ValueError(f"Server '{server_name}' is not defined in the configuration.")
ServerNotDefined(server_name) ==
    [exception |-> "ValueError",
     message |-> <<"Server '", server_name, "' is not defined in the configuration.">>]

\* types.CallToolResult(isError=True, content=[TextContent(
\*     text=f"Tool {tool_name} in {server_name} call timed out.")])
TimeoutResult(server_name, tool_name) ==
    [isError |-> TRUE,
     content |-> <<"Tool ", tool_name, " in ", server_name, " call timed out.">>]

\* The result the design comment proposes for a tool that is not exposed:
\* f"VirtualError: tool {tool_name} on {server_name} not exposed"
NotExposedResult(server_name, tool_name) ==
    [isError |-> TRUE,
     content |-> <<"VirtualError: tool ", tool_name, " on ", server_name, " not exposed">>]

\* return self.matcher.match(query)
route(query) == match(query)

\* A call_tool coroutine that has not been started.  `acquiring` and `timer`
\* count the time it spent before and since asyncio.wait_for started.
IdleCall ==
    [pc |-> "idle", server_name |-> NONE, tool_name |-> NONE, exposed |-> FALSE,
     path |-> "none", pending |-> Nothing,
     acquires |-> 0, releases |-> 0, opens |-> 0, closes |-> 0,
     acquiring |-> 0, timer |-> 0]

FreeLock == [holder |-> 0, waiters |-> <<>>]

\* No initialize_from_servers is under way.
NoRun == [running |-> FALSE]

\* No caller keeps a collection it got from list_exposed.
NoHeld == [kept |-> FALSE]

\* A slip: the lock is left held.
release_forgotten(lock) == lock

\* Lock.release()
release(lock) == [lock EXCEPT !.holder = 0]

\* asyncio.Lock.acquire, fast path: not locked and nobody queued.
CanEnter_unguarded(lock) == TRUE

CanEnter(lock) == lock.holder = 0 /\ lock.waiters = <<>>

\* asyncio.Lock.release wakes the first waiter, which then takes the lock.
CanResume(lock, c) ==
    lock.holder = 0 /\ lock.waiters # <<>> /\ Head(lock.waiters) = c

\* `self.servers.get(server_name)` is a Server (truthy) for configured names.
IsDefined_any(server_name) == TRUE

IsDefined(server_name) == server_name \in Servers

\* The try/except around asyncio.wait_for: a TimeoutError becomes a result,
\* a result is returned, any other fault is not caught.
call_tool_try_nocatch(server_name, tool_name, ev) == ev

call_tool_try(server_name, tool_name, ev) ==
    IF ev.kind = "raise" /\ ev.value.exception = "TimeoutError"
    THEN Return(TimeoutResult(server_name, tool_name))
    ELSE ev

TimeoutError == [exception |-> "TimeoutError", message |-> <<>>]

\* A slip: one lock for the registry and the dispatch.
EnterRegistry_shared == CanEnter(registry_lock) /\ CanEnter(connection_lock)

\* `async with self._lock` of a ToolRegistry method, fast path: self._lock is
\* the registry's own asyncio.Lock(), not the Router's connection_lock.
EnterRegistry == CanEnter(registry_lock)

----------------------------------------------------------------------------
(* Initial state: an empty registry, a free lock, no call in flight *)

Init ==
    /\ registry = << >>
    /\ connection_lock = FreeLock
    /\ calls = [c \in Callers |-> IdleCall]
    /\ last = [op |-> "none"]
    /\ registry_lock = FreeLock
    /\ init_run = NoRun
    /\ held = NoHeld

----------------------------------------------------------------------------
(* ToolRegistry operations.  Each body runs under `async with self._lock`  *)
(* and holds no await: under asyncio the body is one uninterrupted run     *)
(* that starts with the lock free.                                         *)

InitializeFromServers(servers) ==
    /\ EnterRegistry
    /\ registry' = initialize_from_servers(registry, servers)
    /\ last' = [op |-> "initialize_from_servers", servers |-> servers,
                before |-> registry]
    /\ UNCHANGED <<connection_lock, calls, registry_lock, init_run, held>>

ExposeTool(server_name, tool_name) ==
    /\ EnterRegistry
    /\ registry' = expose_tool(registry, server_name, tool_name)
    /\ last' = [op |-> "expose_tool", server_name |-> server_name,
                tool_name |-> tool_name, before |-> registry]
    /\ UNCHANGED <<connection_lock, calls, registry_lock, init_run, held>>

HideTool(server_name, tool_name) ==
    /\ EnterRegistry
    /\ registry' = hide_tool(registry, server_name, tool_name)
    /\ last' = [op |-> "hide_tool", server_name |-> server_name,
                tool_name |-> tool_name, before |-> registry]
    /\ UNCHANGED <<connection_lock, calls, registry_lock, init_run, held>>

RegistryNext ==
    \/ \E servers \in ServerDicts : InitializeFromServers(servers)
    \/ \E s \in ServerNames, t \in ArgTools : ExposeTool(s, t)
    \/ \E s \in ServerNames, t \in ArgTools : HideTool(s, t)

----------------------------------------------------------------------------
(* ToolRegistry reads, and a caller that keeps what list_exposed returned *)

\* The longest list a caller grows the returned collection to.
MaxHeld == 4

\* The registry as the completed whole writes have left it: what it was
\* before the initialize_from_servers that is under way, if one is.
Committed == IF init_run.running THEN init_run.before ELSE registry

\* The body of list_exposed, run with the lock.
ReadListExposed(server_name, waited) ==
    /\ \E items \in list_exposed(registry, server_name) :
          /\ held' = new_list(server_name, items)
          /\ last' = [op |-> "list_exposed", server_name |-> server_name,
                      result |-> items, before |-> registry,
                      waited |-> waited, committed |-> Committed, during |-> init_run]
    /\ registry' = dict_get(registry, server_name, {}).dict

\* The body of is_exposed, run with the lock.
ReadIsExposed(server_name, tool_name, waited) ==
    /\ last' = [op |-> "is_exposed", server_name |-> server_name,
                tool_name |-> tool_name,
                result |-> is_exposed(registry, server_name, tool_name),
                before |-> registry,
                waited |-> waited, committed |-> Committed, during |-> init_run]
    /\ registry' = dict_get(registry, server_name, {}).dict
    /\ UNCHANGED held

ListExposed(server_name) ==
    /\ EnterRegistry
    /\ ReadListExposed(server_name, FALSE)
    /\ UNCHANGED <<connection_lock, calls, registry_lock, init_run>>

IsExposed(server_name, tool_name) ==
    /\ EnterRegistry
    /\ ReadIsExposed(server_name, tool_name, FALSE)
    /\ UNCHANGED <<connection_lock, calls, registry_lock, init_run>>

\* The elements of the collection the caller holds, as the caller reads them.
Contents(h) ==
    IF h.alias_of = NONE THEN Range(h.items) ELSE Get(registry, h.alias_of, {})

\* The caller appends to the collection it got: the object's storage changes,
\* which is the registry's set when the object is that set.
CallerAppends(tool_name) ==
    /\ held.kept
    /\ Len(held.expected) < MaxHeld
    /\ IF held.alias_of = NONE
       THEN /\ held' = [held EXCEPT !.items = Append(@, tool_name),
                                    !.expected = Append(@, tool_name)]
            /\ UNCHANGED registry
       ELSE /\ held' = [held EXCEPT !.expected = Append(@, tool_name)]
            /\ registry' = Put(registry, held.alias_of,
                               Get(registry, held.alias_of, {}) \cup {tool_name})
    /\ last' = [op |-> "caller_append", tool_name |-> tool_name, before |-> registry]
    /\ UNCHANGED <<connection_lock, calls, registry_lock, init_run>>

ReadNext ==
    \/ \E s \in ServerNames : ListExposed(s)
    \/ \E s \in ServerNames, t \in ArgTools : IsExposed(s, t)
    \/ \E t \in ArgTools : CallerAppends(t)

----------------------------------------------------------------------------
(* The registry under a scheduler that could switch tasks anywhere: the    *)
(* loop of initialize_from_servers is taken one iteration at a time, with  *)
(* self._lock held from before the first to after the last, and a reader   *)
(* that finds the lock held queues behind it.                              *)

\* Catalogs of two servers handed to initialize_from_servers.
CatalogNames == {"s1", "s2"}

Catalogs ==
    { [s \in CatalogNames |->
          IF s = "s1" THEN List(<<Tool("a"), Tool("b"), Tool("c"), Tool("d")>>)
                      ELSE List(<<Tool("d"), Tool("a")>>)],
      [s \in CatalogNames |->
          IF s = "s1" THEN List(<<Tool("d"), Tool("a")>>) ELSE NoList] }

\* The task that runs initialize_from_servers, as the lock's holder.
InitTask == 1

\* The most readers queued on self._lock.
MaxQueued == 1

\* A slip: initialize_from_servers without its `async with self._lock`.
take_forgotten(lock, task) == lock

\* `async with self._lock` entered by a task: the lock is held by it.
take(lock, task) == [lock EXCEPT !.holder = task]

\* initialize_from_servers enters `async with self._lock`; the loop will
\* visit the names in the dict's order, whatever it is.
BeginInitialize(servers) ==
    /\ ~init_run.running
    /\ EnterRegistry
    /\ registry_lock' = take(registry_lock, InitTask)
    /\ \E order \in ListsOf(DOMAIN servers) :
          init_run' = [running |-> TRUE, servers |-> servers, todo |-> order,
                       before |-> registry]
    /\ UNCHANGED <<registry, connection_lock, calls, last, held>>

\* One iteration of the loop: self._registry[name] = set(tool_names).
\* After the last one the block is left and the lock released.
InitializeStep ==
    /\ init_run.running
    /\ LET name == Head(init_run.todo)
       IN  registry' = Put(registry, name,
                           Range(tool_names(ToolsOrEmpty(init_run.servers[name]))))
    /\ IF Len(init_run.todo) > 1
       THEN /\ init_run' = [init_run EXCEPT !.todo = Tail(@)]
            /\ UNCHANGED <<registry_lock, last>>
       ELSE /\ init_run' = NoRun
            /\ registry_lock' = release(registry_lock)
            /\ last' = [op |-> "initialize_from_servers",
                        servers |-> init_run.servers, before |-> init_run.before]
    /\ UNCHANGED <<connection_lock, calls, held>>

\* The reads a task may ask for.
ReadRequests ==
    [op : {"is_exposed"}, server_name : CatalogNames, tool_name : ArgTools]
        \cup [op : {"list_exposed"}, server_name : CatalogNames, tool_name : {NONE}]

\* A read starts: it runs at once with a free lock and queues otherwise.
StartRead(req) ==
    IF EnterRegistry
    THEN /\ IF req.op = "is_exposed"
            THEN ReadIsExposed(req.server_name, req.tool_name, FALSE)
            ELSE ReadListExposed(req.server_name, FALSE)
         /\ UNCHANGED <<connection_lock, calls, registry_lock, init_run>>
    ELSE /\ Len(registry_lock.waiters) < MaxQueued
         /\ registry_lock' = [registry_lock EXCEPT !.waiters = Append(@, req)]
         /\ UNCHANGED <<registry, connection_lock, calls, last, init_run, held>>

\* The first queued read is resumed with the lock, runs and releases it.
ResumeRead ==
    /\ registry_lock.waiters # <<>>
    /\ CanResume(registry_lock, Head(registry_lock.waiters))
    /\ LET req == Head(registry_lock.waiters)
       IN  IF req.op = "is_exposed"
           THEN ReadIsExposed(req.server_name, req.tool_name, TRUE)
           ELSE ReadListExposed(req.server_name, TRUE)
    /\ registry_lock' = [registry_lock EXCEPT !.waiters = Tail(@)]
    /\ UNCHANGED <<connection_lock, calls, init_run>>

LockedRegistryNext ==
    \/ \E servers \in Catalogs : BeginInitialize(servers)
    \/ InitializeStep
    \/ \E req \in ReadRequests : StartRead(req)
    \/ ResumeRead
    \/ \E t \in ArgTools : ExposeTool("s2", t)

\* The registry with a stepwise initialize_from_servers, readers and a writer.
LockedRegistrySpec == Init /\ [][LockedRegistryNext]_vars

----------------------------------------------------------------------------
(* Router.route: no await inside, one uninterrupted run *)

Route(query) ==
    /\ last' = [op |-> "route", query |-> query, result |-> route(query)]
    /\ UNCHANGED <<registry, connection_lock, calls, registry_lock, init_run, held>>

----------------------------------------------------------------------------
(* Router.call_tool, one action per run between two suspensions.  The      *)
(* coroutine suspends where it waits for a held lock, in MCPConnection's   *)
(* __aenter__, in wait_for and in MCPConnection's __aexit__; taking a free *)
(* lock, Lock.release and the return to the caller do not suspend.         *)

\* What the caller gets back, with the call's own counts.
Completed(call, lock) ==
    [op |-> "call_tool",
     server_name |-> call.server_name, tool_name |-> call.tool_name,
     exposed |-> call.exposed, path |-> call.path, outcome |-> call.pending,
     acquires |-> call.acquires, releases |-> call.releases,
     opens |-> call.opens, closes |-> call.closes,
     acquiring |-> call.acquiring, timer |-> call.timer,
     holder_after |-> lock.holder]

\* Leaving `async with self.connection_lock` by return or by a fault:
\* the lock is released and the result or the fault reaches the caller.
Leave(c, call, lock) ==
    /\ connection_lock' = release(lock)
    /\ last' = Completed([call EXCEPT !.releases = @ + 1], connection_lock')
    /\ calls' = [calls EXCEPT ![c] = IdleCall]

\* With the lock held: the lookup of the server, then MCPConnection.__aenter__
\* is awaited.
Enter(c, call, lock) ==
    IF IsDefined(call.server_name)
    THEN /\ calls' = [calls EXCEPT ![c] = [call EXCEPT !.pc = "opening"]]
         /\ connection_lock' = lock
         /\ UNCHANGED last
    ELSE Leave(c, [call EXCEPT !.path = "unknown_server",
                               !.pending = Raise(ServerNotDefined(call.server_name))],
               lock)

\* The caller starts call_tool; `async with self.connection_lock` takes the
\* lock at once when it is free and queues the coroutine otherwise.
CallTool(c, server_name, tool_name) ==
    /\ calls[c].pc = "idle"
    /\ LET started == [IdleCall EXCEPT !.server_name = server_name,
                                       !.tool_name = tool_name,
                                       !.exposed = is_exposed(registry, server_name, tool_name)]
       IN  IF CanEnter(connection_lock)
           THEN Enter(c, [started EXCEPT !.acquires = 1],
                      [connection_lock EXCEPT !.holder = c])
           ELSE /\ connection_lock' = [connection_lock EXCEPT !.waiters = Append(@, c)]
                /\ calls' = [calls EXCEPT ![c] = [started EXCEPT !.pc = "wait"]]
                /\ UNCHANGED last
    /\ UNCHANGED <<registry, registry_lock, init_run, held>>

\* A queued coroutine is resumed with the lock.
Acquire(c) ==
    /\ calls[c].pc = "wait"
    /\ CanResume(connection_lock, c)
    /\ Enter(c, [calls[c] EXCEPT !.acquires = @ + 1],
             [holder |-> c, waiters |-> Tail(connection_lock.waiters)])
    /\ UNCHANGED <<registry, registry_lock, init_run, held>>

\* `async with MCPConnection(server_config) as connection`: __aenter__ returns
\* and asyncio.wait_for(connection.call_tool(...)) is awaited
OpenConnection(c) ==
    /\ calls[c].pc = "opening"
    /\ calls' = [calls EXCEPT ![c].pc = "invoking", ![c].opens = @ + 1]
    /\ UNCHANGED <<registry, connection_lock, last, registry_lock, init_run, held>>

\* __aenter__ raises: the block is not entered and __aexit__ is not run
OpenFails(c) ==
    /\ calls[c].pc = "opening"
    /\ Leave(c, [calls[c] EXCEPT !.path = "connect_failed",
                                 !.pending = Raise(ConnectError)],
             connection_lock)
    /\ UNCHANGED <<registry, registry_lock, init_run, held>>

\* wait_for ends with `ev` (a result, a fault, the timeout); the try/except
\* decides what leaves the MCPConnection block, whose __aexit__ is awaited.
Invoked(c, path, ev) ==
    /\ calls[c].pc = "invoking"
    /\ calls' = [calls EXCEPT
                    ![c].pc = "closing",
                    ![c].path = path,
                    ![c].pending = call_tool_try(calls[c].server_name,
                                                 calls[c].tool_name, ev)]
    /\ UNCHANGED <<registry, connection_lock, last, registry_lock, init_run, held>>

\* connection.call_tool returns the server's result in time
InvokeReturns(c) ==
    \E r \in ConnectionResults(calls[c].server_name, calls[c].tool_name) :
        Invoked(c, "returned", Return(r))

\* connection.call_tool raises the server's failure in time
InvokeRaises(c) == Invoked(c, "remote_error", Raise(RemoteError))

\* the timeout passes first: wait_for cancels the invoke and raises TimeoutError
InvokeTimesOut(c) == Invoked(c, "timeout", Raise(TimeoutError))

\* MCPConnection.__aexit__, run on the way out by a return as by a fault.
exit_connection_skipped_on_fault(call) ==
    IF call.pending.kind = "raise" THEN call ELSE [call EXCEPT !.closes = @ + 1]

exit_connection(call) == [call EXCEPT !.closes = @ + 1]

\* __aexit__ has closed the connection; the lock block is left
CloseConnection(c) ==
    /\ calls[c].pc = "closing"
    /\ Leave(c, exit_connection(calls[c]), connection_lock)
    /\ UNCHANGED <<registry, registry_lock, init_run, held>>

CallNext ==
    \/ \E c \in Callers, s \in ServerNames, t \in ArgTools : CallTool(c, s, t)
    \/ \E c \in Callers : Acquire(c)
    \/ \E c \in Callers : OpenConnection(c)
    \/ \E c \in Callers : OpenFails(c)
    \/ \E c \in Callers : InvokeReturns(c)
    \/ \E c \in Callers : InvokeRaises(c)
    \/ \E c \in Callers : InvokeTimesOut(c)
    \/ \E c \in Callers : CloseConnection(c)

----------------------------------------------------------------------------
(* Router.call_tool with the clock: time passes while a call waits for the *)
(* lock, opens its connection and awaits its invoke.                       *)

\* The timeout of call_tool, in ticks of the clock.
TimeoutTicks == 1

\* The longest acquisition of lock and connection that is followed.
MaxAcquiring == TimeoutTicks + 1

\* A slip: the time is counted from the start of call_tool.
deadline_reached_from_start(call) == call.acquiring + call.timer >= TimeoutTicks

\* asyncio.wait_for(..., timeout=timeout) arms its timer when it is called,
\* with the lock held and the connection open.
deadline_reached(call) == call.timer >= TimeoutTicks

\* One tick passes for a call that is suspended.
TimePasses(c) ==
    /\ calls[c].pc \in {"wait", "opening", "invoking"}
    /\ IF calls[c].pc = "invoking"
       THEN /\ calls[c].timer < TimeoutTicks
            /\ calls' = [calls EXCEPT ![c].timer = @ + 1]
       ELSE /\ calls[c].acquiring < MaxAcquiring
            /\ calls' = [calls EXCEPT ![c].acquiring = @ + 1]
    /\ UNCHANGED <<registry, connection_lock, last, registry_lock, init_run, held>>

\* The invoke ends before wait_for's timer fires.
TimedInvokeReturns(c) == ~deadline_reached(calls[c]) /\ InvokeReturns(c)

TimedInvokeRaises(c) == ~deadline_reached(calls[c]) /\ InvokeRaises(c)

\* wait_for's timer fires.
TimedInvokeTimesOut(c) == deadline_reached(calls[c]) /\ InvokeTimesOut(c)

TimedNext ==
    \/ \E c \in Callers, s \in ServerNames, t \in ArgTools : CallTool(c, s, t)
    \/ \E c \in Callers : Acquire(c)
    \/ \E c \in Callers : OpenConnection(c)
    \/ \E c \in Callers : OpenFails(c)
    \/ \E c \in Callers : TimedInvokeReturns(c)
    \/ \E c \in Callers : TimedInvokeRaises(c)
    \/ \E c \in Callers : TimedInvokeTimesOut(c)
    \/ \E c \in Callers : CloseConnection(c)
    \/ \E c \in Callers : TimePasses(c)

TimedSpec == Init /\ [][TimedNext]_vars

----------------------------------------------------------------------------
(* Router.call_tool with cancellation: the task running call_tool is       *)
(* cancelled while it is suspended on the lock, in MCPConnection's         *)
(* __aenter__ or in wait_for.                                              *)

CancelledError == [exception |-> "CancelledError", message |-> <<>>]

\* A slip: the cancelled waiter stays in the lock's queue.
remove_waiter_forgotten(lock, c) == lock

\* asyncio.Lock.acquire, cancelled while queued: the waiter leaves the queue
\* (the next one is then the first to be resumed).
remove_waiter(lock, c) ==
    [lock EXCEPT !.waiters = SelectSeq(@, LAMBDA w : w # c)]

\* Cancelled while queued on the lock: `async with` was not entered, nothing
\* is released; CancelledError reaches the caller.
CancelWaiting(c) ==
    /\ calls[c].pc = "wait"
    /\ connection_lock' = remove_waiter(connection_lock, c)
    /\ last' = Completed([calls[c] EXCEPT !.path = "cancelled_waiting",
                                          !.pending = Raise(CancelledError)],
                         connection_lock')
    /\ calls' = [calls EXCEPT ![c] = IdleCall]
    /\ UNCHANGED <<registry, registry_lock, init_run, held>>

\* Cancelled in MCPConnection.__aenter__: the block is not entered, the lock
\* block is left by the fault.
CancelOpening(c) ==
    /\ calls[c].pc = "opening"
    /\ Leave(c, [calls[c] EXCEPT !.path = "cancelled_opening",
                                 !.pending = Raise(CancelledError)],
             connection_lock)
    /\ UNCHANGED <<registry, registry_lock, init_run, held>>

\* Cancelled in wait_for: CancelledError is not a TimeoutError, it leaves the
\* MCPConnection block, whose __aexit__ is awaited.
CancelInvoking(c) == Invoked(c, "cancelled_invoking", Raise(CancelledError))

CancelNext ==
    \/ CallNext
    \/ \E c \in Callers : CancelWaiting(c)
    \/ \E c \in Callers : CancelOpening(c)
    \/ \E c \in Callers : CancelInvoking(c)

CancelSpec == Init /\ [][CancelNext]_vars

Next ==
    \/ RegistryNext
    \/ \E q \in Queries : Route(q)
    \/ CallNext

Spec == Init /\ [][Next]_vars

\* The registry alone.
RegistrySpec == Init /\ [][RegistryNext]_vars

\* The registry with its readers.
RegistryReadSpec == Init /\ [][RegistryNext \/ ReadNext]_vars

\* Tool calls on the configured server in flight together with registry
\* writes (a stepwise initialize_from_servers, expose_tool) and route.
IndependenceNext ==
    \/ \E c \in Callers, t \in ArgTools : CallTool(c, "s1", t)
    \/ \E c \in Callers : Acquire(c)
    \/ \E c \in Callers : OpenConnection(c)
    \/ \E c \in Callers : InvokeReturns(c)
    \/ \E c \in Callers : InvokeTimesOut(c)
    \/ \E c \in Callers : CloseConnection(c)
    \/ \E servers \in Catalogs : BeginInitialize(servers)
    \/ InitializeStep
    \/ \E t \in ArgTools : ExposeTool("s1", t)
    \/ \E q \in Queries : Route(q)

IndependenceSpec == Init /\ [][IndependenceNext]_vars

\* The dispatch alone: call_tool reads nothing of the registry.
DispatchSpec == Init /\ [][CallNext]_vars

\* wait_for ends every invoke (by its timer at the latest), the connection's
\* open and close end, and the event loop runs every coroutine that is ready.
Fairness ==
    \A c \in Callers :
        /\ WF_vars(Acquire(c))
        /\ WF_vars(OpenConnection(c) \/ OpenFails(c))
        /\ WF_vars(InvokeReturns(c) \/ InvokeRaises(c) \/ InvokeTimesOut(c))
        /\ WF_vars(CloseConnection(c))

DispatchFairSpec == DispatchSpec /\ Fairness

----------------------------------------------------------------------------
(* Router.__init__: the servers of the configuration document *)

\* The values of "command" and of "url" in a server's entry: absent (None),
\* empty, or given.
CommandValues == {NONE, "", "python"}
UrlValues == {NONE, "", "http://host"}

\* The names under "mcpServers".
ConfigNames == {"s1", "s2"}

\* The configuration documents: name -> {command, url}.
Configs ==
    UNION { [D -> [command : CommandValues, url : UrlValues]] : D \in SUBSET ConfigNames }

\* Python's `not x` on an Optional[str] is false for a non-empty string only.
Truthy(x) == x \notin {NONE, ""}

ValidationError ==
    [exception |-> "ValidationError",
     message |-> <<"Either 'command' or 'url' must be provided">>]

\* ServerConfig.check_command_or_url
check_command_or_url(config) ==
    IF ~Truthy(config.command) /\ ~Truthy(config.url)
    THEN Raise(ValidationError)
    ELSE Return(config)

\* for name, config_data in self.config.get("mcpServers", {}).items():
\*     self.servers[name] = Server(name=name, config=ServerConfig(**config_data))
load_servers(config) ==
    IF \E name \in DOMAIN config : check_command_or_url(config[name]).kind = "raise"
    THEN Raise(ValidationError)
    ELSE Return([name \in DOMAIN config |->
                    [name |-> name, config |-> config[name], tools |-> NoList]])

\* A Router is constructed from a configuration document.
LoadConfig(config) ==
    /\ last' = [op |-> "Router.__init__", config |-> config,
                outcome |-> load_servers(config)]
    /\ UNCHANGED <<registry, connection_lock, calls, registry_lock, init_run, held>>

ConfigNext == \E config \in Configs : LoadConfig(config)

\* The loading of configurations alone.
ConfigSpec == Init /\ [][ConfigNext]_vars

----------------------------------------------------------------------------
(* Properties *)

Returned == last.op = "call_tool"

\* A caller is between the connection's open and the end of its close.
InSection(c) == calls[c].pc \in {"opening", "invoking", "closing"}

\* A caller's connection is open: opened and not yet closed.
HasOpenConnection(c) == calls[c].opens > calls[c].closes

\* C1: a call_tool(s, t) started while t is not exposed on s opens no
\* connection (it is never between connect and close) and returns a result
\* with isError = true (stated for the configured servers; the others are
\* the case of C7).
C1_VisibilityGate ==
    /\ \A c \in Callers :
          (calls[c].server_name \in Servers /\ ~calls[c].exposed) =>
              ~InSection(c) /\ calls[c].opens = 0
    /\ (Returned /\ last.server_name \in Servers /\ ~last.exposed) =>
          /\ last.outcome.kind = "return"
          /\ last.outcome.value.isError
          /\ last.opens = 0

\* C2: at most one call_tool is between connect and the end of close, and
\* at most one connection is open, at any time.
C2_MutualExclusion ==
    /\ Cardinality({c \in Callers : InSection(c)}) <= 1
    /\ Cardinality({c \in Callers : HasOpenConnection(c)}) <= 1

\* C2 witness: one call holds an open connection while another call waits
\* for the lock.
C2_Witness ==
    \E c1, c2 \in Callers :
        /\ calls[c1].pc = "invoking" /\ HasOpenConnection(c1)
        /\ calls[c2].pc = "wait"

\* C3: every call_tool ends by returning a result, never by raising: an
\* error result for an unknown server, a timeout and a remote error, the
\* connection's own result on success.
C3_AlwaysOutcome ==
    Returned =>
        /\ last.outcome.kind = "return"
        /\ last.path \in {"unknown_server", "timeout", "remote_error"}
              => last.outcome.value.isError
        /\ last.path = "returned"
              => last.outcome.value \in
                     ConnectionResults(last.server_name, last.tool_name)

\* C4: a call whose invoke runs into the timeout ends, returns an error
\* result whose text names the tool, the server and the timeout, has closed
\* its connection exactly once, and leaves the lock free.
C4_Timeout ==
    /\ [](Returned /\ last.path = "timeout" =>
            /\ last.outcome.kind = "return"
            /\ last.outcome.value.isError
            /\ {last.tool_name, last.server_name, " call timed out."}
                   \subseteq Range(last.outcome.value.content)
            /\ last.opens = 1
            /\ last.closes = 1
            /\ last.holder_after = 0)
    /\ \A c \in Callers : (calls[c].path = "timeout") ~> (calls[c].pc = "idle")

\* C4 witness: a call that timed out has returned.
C4_Witness == Returned /\ last.path = "timeout" /\ last.closes = 1

\* C5: on every way out of call_tool the lock is released exactly once, an
\* opened connection is closed exactly once, and the lock is not released
\* while the connection is open.
C5_ReleaseDiscipline ==
    /\ Returned =>
          /\ last.acquires = 1
          /\ last.releases = 1
          /\ last.opens \in {0, 1}
          /\ last.closes = last.opens
          /\ last.holder_after = 0
    /\ \A c \in Callers :
          /\ calls[c].releases = 0
          /\ calls[c].closes <= calls[c].opens
          /\ HasOpenConnection(c) => connection_lock.holder = c

\* C5 witness: a call left by a fault of the server, after its connection
\* was opened.
C5_Witness == Returned /\ last.path = "remote_error" /\ last.opens = 1

\* The lists of a route result; a list the result does not carry is empty.
Visible(r) == IF "visible" \in DOMAIN r THEN r.visible ELSE r.matched_tools
Hidden(r) ==
    IF "hidden" \in DOMAIN r THEN r.hidden
    ELSE IF "hidden_tools" \in DOMAIN r THEN r.hidden_tools
    ELSE << >>

\* C6: route(query) returns success with every candidate of the matcher in
\* exactly one of visible and hidden: visible iff the registry exposes it.
C6_RoutePartition ==
    last.op = "route" =>
        LET r == last.result
            matched == match(last.query).matched_tools
        IN  /\ r.success
            /\ \A cand \in Range(matched) :
                  /\ cand \in Range(Visible(r))
                        <=> is_exposed(registry, cand.server_name, cand.tool_name)
                  /\ cand \in Range(Hidden(r))
                        <=> ~is_exposed(registry, cand.server_name, cand.tool_name)
            /\ Len(Visible(r)) + Len(Hidden(r)) = Len(matched)

\* C7: a call_tool on a server that is not configured ends with the
\* unknown-server error, which differs from the not-exposed error, and
\* opens no connection.
C7_UnknownServer ==
    (Returned /\ last.server_name \notin Servers) =>
        /\ last.path = "unknown_server"
        /\ last.outcome.kind = "raise"
        /\ last.outcome.value.exception = "ValueError"
        /\ last.server_name \in Range(last.outcome.value.message)
        /\ last.outcome.value # NotExposedResult(last.server_name, last.tool_name)
        /\ last.opens = 0
        /\ last.closes = 0

\* C7 witness: a call on the server "ghost" has ended.
C7_Witness == Returned /\ last.server_name = "ghost" /\ last.path = "unknown_server"

\* Every other (server, tool) pair is exposed after as it was before.
OthersKept(before, after, s, t) ==
    \A s2 \in ServerNames \cup DOMAIN before \cup DOMAIN after, t2 \in Tools :
        <<s2, t2>> # <<s, t>> =>
            (is_exposed(after, s2, t2) <=> is_exposed(before, s2, t2))

\* C8: after expose_tool(s, t) the tool is exposed and listed, s has an
\* entry, an already exposed tool leaves the registry as it was, and no
\* other pair changes.
C8_Expose ==
    last.op = "expose_tool" =>
        LET s == last.server_name
            t == last.tool_name
        IN  /\ is_exposed(registry, s, t)
            /\ \A l \in list_exposed(registry, s) : t \in Range(l)
            /\ DOMAIN registry = DOMAIN last.before \cup {s}
            /\ is_exposed(last.before, s, t) => registry = last.before
            /\ OthersKept(last.before, registry, s, t)

\* C8 witness: expose_tool on a server that had no entry, beside another
\* server with exposed tools.
C8_Witness ==
    /\ last.op = "expose_tool"
    /\ last.server_name \notin DOMAIN last.before
    /\ \E s \in DOMAIN last.before : last.before[s] # {}

\* C9: after hide_tool(s, t) the tool is not exposed; hiding a tool that was
\* not exposed changes nothing and creates no entry; no other pair changes.
C9_Hide ==
    last.op = "hide_tool" =>
        LET s == last.server_name
            t == last.tool_name
        IN  /\ ~is_exposed(registry, s, t)
            /\ ~is_exposed(last.before, s, t) => registry = last.before
            /\ DOMAIN registry = DOMAIN last.before
            /\ OthersKept(last.before, registry, s, t)

\* C9 witness: hide_tool removed a tool from a set that holds others.
C9_Witness ==
    /\ last.op = "hide_tool"
    /\ is_exposed(last.before, last.server_name, last.tool_name)
    /\ registry[last.server_name] # {}

\* C10: initialization under a first-2 policy: a server listing the tools
\* [a, b, c, d] exposes exactly {a, b}, and c is not exposed.
C10_FirstTwoPolicy ==
    last.op = "initialize_from_servers" =>
        \A s \in DOMAIN last.servers :
            ToolsOrEmpty(last.servers[s]) = <<Tool("a"), Tool("b"), Tool("c"), Tool("d")>> =>
                /\ \A l \in list_exposed(registry, s) : Range(l) = {"a", "b"}
                /\ ~is_exposed(registry, s, "c")

\* The first-K policy applied to a server's listing: the names exposed.
PolicyResult(tools) ==
    { ToolsOrEmpty(tools)[i].name : i \in 1..Min(K, Len(ToolsOrEmpty(tools))) }

\* C11 as claimed: after initialize_from_servers the registry holds the
\* policy result of the catalog's servers and nothing else.
C11_FullReplace ==
    last.op = "initialize_from_servers" =>
        /\ DOMAIN registry = DOMAIN last.servers
        /\ \A s \in DOMAIN last.servers :
              registry[s] = PolicyResult(last.servers[s])

\* C11 as amended: initialize_from_servers replaces the set of every server
\* of the catalog by the policy result, whatever it held before, keeps the
\* entries of the servers that are not in the catalog as they were, and a
\* second run with the same catalog changes nothing.
C11_ReplacePerServer ==
    last.op = "initialize_from_servers" =>
        /\ DOMAIN registry = DOMAIN last.before \cup DOMAIN last.servers
        /\ \A s \in DOMAIN last.servers :
              registry[s] = PolicyResult(last.servers[s])
        /\ \A s \in DOMAIN last.before \ DOMAIN last.servers :
              registry[s] = last.before[s]
        /\ initialize_from_servers(registry, last.servers) = registry

\* C11 witness: initialization over a registry in which a server of the
\* catalog exposed a tool outside the policy result and a server outside
\* the catalog has an entry.
C11_Witness ==
    /\ last.op = "initialize_from_servers"
    /\ \E s \in DOMAIN last.servers \cap DOMAIN last.before :
          last.before[s] \ PolicyResult(last.servers[s]) # {}
    /\ DOMAIN last.before \ DOMAIN last.servers # {}

\* C12: a configuration is accepted iff every server entry has exactly one
\* of command and url: an entry with neither is rejected when the Router is
\* constructed, and so is an entry with both.
C12_ExactlyOneForm ==
    last.op = "Router.__init__" =>
        (last.outcome.kind = "return"
            <=> \A name \in DOMAIN last.config :
                    Truthy(last.config[name].command) # Truthy(last.config[name].url))

\* C13: list_exposed returns the server's exposed set as it is at the call,
\* in a collection of its own: the caller's changes to that collection leave
\* the registry as it was, and later changes to the registry leave the
\* collection as the caller has it.
C13_Snapshot ==
    /\ last.op = "list_exposed" =>
          Range(last.result) = Get(last.before, last.server_name, {})
    /\ last.op = "caller_append" => registry = last.before
    /\ held.kept => Contents(held) = Range(held.expected)

\* The caller appended to the collection it holds and the registry then lost
\* a tool of the same server.
C13_Witness ==
    /\ held.kept
    /\ Range(held.expected) \ Get(registry, held.server_name, {}) # {}
    /\ last.op = "hide_tool"
    /\ last.server_name = held.server_name
    /\ last.tool_name \in Range(held.expected)
    /\ registry # last.before

\* C14: is_exposed on a server that has no entry answers False and creates
\* no entry: the registry is left as it was.
C14_NoEntry ==
    (last.op = "is_exposed" /\ last.server_name \notin DOMAIN last.before) =>
        /\ last.result = FALSE
        /\ last.server_name \notin DOMAIN registry
        /\ registry = last.before

C14_Witness ==
    /\ last.op = "is_exposed"
    /\ last.server_name \notin DOMAIN last.before
    /\ last.before # << >>

\* C15: every is_exposed / list_exposed observes the registry as completed
\* whole writes have left it: if an initialize_from_servers is under way it
\* observes the registry from before it or the registry it produces, never
\* one with some servers replaced and others not; and its answer is the one
\* that registry gives.
C15_Linearizable ==
    last.op \in {"is_exposed", "list_exposed"} =>
        /\ last.before \in
              {last.committed}
                 \cup (IF last.during.running
                       THEN {initialize_from_servers(last.during.before,
                                                     last.during.servers)}
                       ELSE {})
        /\ last.op = "is_exposed" =>
              last.result = (last.tool_name \in Get(last.committed, last.server_name, {}))
        /\ last.op = "list_exposed" =>
              Range(last.result) = Get(last.committed, last.server_name, {})

\* A read that started while initialize_from_servers was replacing the sets
\* of two servers has waited and then run on the replaced sets.
C15_Witness ==
    /\ last.op \in {"is_exposed", "list_exposed"}
    /\ last.waited
    /\ \A s \in CatalogNames : s \in DOMAIN last.before
    /\ last.server_name = "s1"
    /\ Get(last.before, "s1", {}) # {}

\* C16: the registry and route do not wait for the dispatch lock, and tool
\* calls do not wait for the registry.  Whoever holds connection_lock or is
\* queued on it, expose_tool, hide_tool, is_exposed and list_exposed can run
\* whenever the registry's own lock admits them and route can always run;
\* and while initialize_from_servers is under way every call in flight can
\* take its next step.
C16_LockIndependence ==
    /\ \A q \in Queries : ENABLED Route(q)
    /\ \A s \in ServerNames, t \in ArgTools :
          /\ (ENABLED ExposeTool(s, t)) = CanEnter(registry_lock)
          /\ (ENABLED HideTool(s, t)) = CanEnter(registry_lock)
          /\ (ENABLED IsExposed(s, t)) = CanEnter(registry_lock)
          /\ (ENABLED ListExposed(s)) = CanEnter(registry_lock)
    /\ \A c \in Callers :
          /\ calls[c].pc = "opening" => ENABLED OpenConnection(c)
          /\ calls[c].pc = "invoking" =>
                (ENABLED InvokeReturns(c)) /\ (ENABLED InvokeTimesOut(c))
          /\ calls[c].pc = "closing" => ENABLED CloseConnection(c)
          /\ (calls[c].pc = "wait" /\ CanResume(connection_lock, c)) =>
                ENABLED Acquire(c)

\* With one call's invoke pending and another call queued on the dispatch
\* lock, expose_tool has just completed.
C16_Witness ==
    /\ \E c \in Callers : calls[c].pc = "invoking" /\ connection_lock.holder = c
    /\ connection_lock.waiters # <<>>
    /\ last.op = "expose_tool"
    /\ registry # last.before

\* A call completed while initialize_from_servers had replaced the set of
\* one server and not yet that of the other.
C16_WitnessWrite ==
    /\ init_run.running
    /\ Len(init_run.todo) = 1
    /\ last.op = "call_tool"
    /\ last.path = "returned"

\* C17: with every open and close of a connection ending, every invoke
\* ending by its timeout at the latest and a fair scheduler, every call_tool
\* that waits for the lock gets it and returns.
C17_EventualAcquisition ==
    \A c \in Callers :
        /\ (calls[c].pc = "wait") ~> (calls[c].pc # "wait")
        /\ (calls[c].pc = "wait") ~> (calls[c].pc = "idle")

\* The call ahead has returned after its invoke ran into the timeout, and
\* the first queued call is about to be resumed with the lock.
C17_Witness ==
    /\ Returned
    /\ last.path = "timeout"
    /\ \E c \in Callers : calls[c].pc = "wait" /\ CanResume(connection_lock, c)

\* C18: the timeout counts from the start of the invoke only: a call whose
\* acquisition of the lock and the connection took longer than the timeout
\* and whose invoke then ended within the timeout does not time out, and
\* when the server answered it returns the server's result unchanged.
C18_TimeoutBoundsInvoke ==
    (/\ Returned
     /\ last.opens = 1
     /\ last.acquiring > TimeoutTicks
     /\ last.timer < TimeoutTicks) =>
        /\ last.path \in {"returned", "remote_error"}
        /\ last.path = "returned" =>
              /\ last.outcome.kind = "return"
              /\ last.outcome.value \in
                     ConnectionResults(last.server_name, last.tool_name)

\* A call that spent more than the timeout before its invoke started has
\* returned the server's result.
C18_Witness ==
    /\ Returned
    /\ last.acquiring > TimeoutTicks
    /\ last.timer < TimeoutTicks
    /\ last.path = "returned"
    /\ last.outcome.kind = "return"

\* C19: the catalog lookup comes before the dispatch lock: a call for a
\* server that is not configured never waits for the lock and fails without
\* having acquired it.
C19_LookupBeforeLock ==
    /\ \A c \in Callers :
          (calls[c].pc # "idle" /\ ~IsDefined(calls[c].server_name)) =>
              calls[c].pc # "wait" /\ calls[c].acquires = 0
    /\ (Returned /\ last.path = "unknown_server") => last.acquires = 0

\* C20: a call_tool cancelled while it waits for the lock, opens its
\* connection or awaits its invoke ends with CancelledError, has closed the
\* connection it opened, and leaves the lock neither held by it nor with it
\* in the queue: the lock is held only by a call in flight and its queue
\* holds exactly the calls that are waiting, so that later calls proceed.
C20_CancellationSafety ==
    /\ (Returned /\ last.path \in {"cancelled_waiting", "cancelled_opening",
                                  "cancelled_invoking"}) =>
          /\ last.outcome = Raise(CancelledError)
          /\ last.closes = last.opens
          /\ last.releases = last.acquires
    /\ connection_lock.holder # 0 => InSection(connection_lock.holder)
    /\ \A c \in Callers :
          /\ calls[c].pc = "wait" <=> c \in Range(connection_lock.waiters)
          /\ HasOpenConnection(c) => connection_lock.holder = c
    /\ (connection_lock.holder = 0 /\ connection_lock.waiters # <<>>) =>
          ENABLED Acquire(Head(connection_lock.waiters))

\* A call cancelled during its invoke has closed its connection and left,
\* while another call is queued and about to be resumed.
C20_Witness ==
    /\ Returned
    /\ last.path = "cancelled_invoking"
    /\ last.opens = 1
    /\ last.closes = 1
    /\ \E c \in Callers : calls[c].pc = "wait" /\ CanResume(connection_lock, c)

====
